---------------------------- MODULE Spec2Model ----------------------------
(***************************************************************************)
(* Model of the catalog discovery engine of src/app.py: the URL helpers    *)
(* (clean_link, is_root_url, classify_schema, is_valid_candidate), the two *)
(* strategies (strategy_shopify, strategy_universal_scan) and the          *)
(* orchestrating block of the UI logic.                                    *)
(*                                                                         *)
(* Python strings are TLA+ strings; a character is a string of length 1.   *)
(***************************************************************************)
EXTENDS Integers, Sequences, FiniteSets, TLC

VARIABLES pc,           \* position of the running code
          domain,       \* domain_input, then the normalised domain
          r,            \* the local r: the last response received
          api_results,  \* strategy_shopify's return value
          found_items,  \* the dict of strategy_universal_scan, in insertion order
          results,      \* the orchestrator's result list
          fetched,      \* the URLs requested so far, in order
          sm_idx,       \* index of the sitemap root being probed
          arg,          \* input of a helper function under test
          ret           \* outputs of a helper function under test

vars == <<pc, domain, r, api_results, found_items, results, fetched, sm_idx, arg, ret>>

---------------------------------------------------------------------------
(* Python string primitives.                                               *)

Min(a, b) == IF a < b THEN a ELSE b

\* F(v) with v evaluated once, before F
With(v, F(_)) == CHOOSE res \in {F(x) : x \in {v}} : TRUE

\* [F(x) for x in seq]
MapSeq(seq, F(_)) == With(seq, LAMBDA x : [i \in 1..Len(x) |-> F(x[i])] \o <<>>)

Ch(s, i) == SubSeq(s, i, i)

\* sub in s
Contains(s, sub) ==
    \E i \in 1..(Len(s) - Len(sub) + 1) : SubSeq(s, i, i + Len(sub) - 1) = sub

\* s.startswith(p)
StartsWith(s, p) == Len(s) >= Len(p) /\ SubSeq(s, 1, Len(p)) = p

SetMin(S) == CHOOSE x \in S : \A y \in S : x <= y
SetMax(S) == CHOOSE x \in S : \A y \in S : x >= y

\* index of the first occurrence of sub in s at or after position i, 0 if none
FindFrom(s, sub, i) ==
    With({j \in i..(Len(s) - Len(sub) + 1) : SubSeq(s, j, j + Len(sub) - 1) = sub},
         LAMBDA hits : IF hits = {} THEN 0 ELSE SetMin(hits))

\* index of the last occurrence of sub in s, 0 if none
FindLast(s, sub) ==
    With({j \in 1..(Len(s) - Len(sub) + 1) : SubSeq(s, j, j + Len(sub) - 1) = sub},
         LAMBDA hits : IF hits = {} THEN 0 ELSE SetMax(hits))

\* s.split(sep)[0]
SplitFirst(s, sep) ==
    With(FindFrom(s, sep, 1), LAMBDA i : IF i = 0 THEN s ELSE SubSeq(s, 1, i - 1))

\* s.split(sep)[-1]
SplitLast(s, sep) ==
    With(FindLast(s, sep),
         LAMBDA i : IF i = 0 THEN s ELSE SubSeq(s, i + Len(sep), Len(s)))

\* s.rstrip(c): up to the last character that is not c
RStrip(s, c) == SubSeq(s, 1, SetMax({0} \cup {n \in 1..Len(s) : Ch(s, n) # c}))

\* s.lstrip(c): from the first character that is not c
LStrip(s, c) ==
    SubSeq(s, SetMin({Len(s) + 1} \cup {n \in 1..Len(s) : Ch(s, n) # c}), Len(s))

\* s.strip(c)
Strip(s, c) == LStrip(RStrip(s, c), c)

\* s.replace(old, new), old non-empty: non-overlapping occurrences, left to right
RECURSIVE ReplaceFrom(_, _, _, _)
ReplaceFrom(s, old, new, i) ==
    With(FindFrom(s, old, i), LAMBDA j :
        IF j = 0 THEN SubSeq(s, i, Len(s))
        ELSE SubSeq(s, i, j - 1) \o new \o ReplaceFrom(s, old, new, j + Len(old)))

Replace(s, old, new) == ReplaceFrom(s, old, new, 1)

LowerLetters == "abcdefghijklmnopqrstuvwxyz"
UpperLetters == "ABCDEFGHIJKLMNOPQRSTUVWXYZ"

LowerSet == {Ch(LowerLetters, i) : i \in 1..Len(LowerLetters)}
UpperSet == {Ch(UpperLetters, i) : i \in 1..Len(UpperLetters)}
ToLower == [c \in UpperSet |-> Ch(LowerLetters, FindFrom(UpperLetters, c, 1))]
ToUpper == [c \in LowerSet |-> Ch(UpperLetters, FindFrom(LowerLetters, c, 1))]

IsCased(c) == c \in LowerSet \/ c \in UpperSet

LowerCh(c) == IF c \in UpperSet THEN ToLower[c] ELSE c

UpperCh(c) == IF c \in LowerSet THEN ToUpper[c] ELSE c

\* s.lower()
RECURSIVE LowerFrom(_, _)
LowerFrom(s, i) ==
    IF i > Len(s) THEN "" ELSE LowerCh(Ch(s, i)) \o LowerFrom(s, i + 1)

Lower(s) == With(s, LAMBDA x : LowerFrom(x, 1))

\* s.title(): a letter that follows a non-letter is upper-cased, any other lower-cased
RECURSIVE TitleFrom(_, _)
TitleFrom(s, i) ==
    IF i > Len(s) THEN ""
    ELSE (IF i > 1 /\ IsCased(Ch(s, i - 1)) THEN LowerCh(Ch(s, i)) ELSE UpperCh(Ch(s, i)))
         \o TitleFrom(s, i + 1)

Title(s) == With(s, LAMBDA x : TitleFrom(x, 1))

\* a Python value that is either None or a str
PyNone == [isNone |-> TRUE, val |-> ""]
PyStr(s) == [isNone |-> FALSE, val |-> s]

\* the f-string rendering of a str-or-None value
FormatValue(v) == IF v.isNone THEN "None" ELSE v.val


---------------------------------------------------------------------------
(* Configuration tables.                                                   *)

\* the dict DIRECTORY_PATTERNS, in its insertion (iteration) order
DIRECTORY_PATTERNS ==
    << <<"/products/", "Product Suite">>,
       <<"/product/", "Product Suite">>,
       <<"/platform/", "Platform Feature">>,
       <<"/solutions/", "Solution (Use Case)">>,
       <<"/features/", "Platform Feature">>,
       <<"/software/", "Product Suite">>,
       <<"/capabilities/", "Platform Feature">> >>

FLAT_SCHEMA_KEYWORDS ==
    << "advertising", "marketing", "intelligence", "sales", "revenue",
       "programmatic", "dsp", "campaign", "channel", "inventory",
       "native", "display", "video", "audio", "connected-tv", "ctv",
       "abm", "b2b", "data", "cloud", "engine", "studio" >>

BLACKLIST_KEYWORDS ==
    << "career", "job", "hiring", "apply", "team", "people",
       "policy", "privacy", "terms", "legal", "gdpr", "security",
       "blog", "news", "press", "release", "media", "events",
       "login", "signin", "register", "account", "portal",
       "about", "contact", "investor", "faq", "support", "help",
       "customer", "case-study", "resource", "ebook", "webinar" >>

FlatLabel == "Flat / Root (High Volume)"
OtherLabel == "Other Product Page"

---------------------------------------------------------------------------
(* URL helpers.                                                            *)

\* clean_link without the trailing-slash strip
clean_link_NoRStrip(url) ==
    IF url.isNone \/ url.val = "" THEN ""
    ELSE SplitFirst(SplitFirst(url.val, "?"), "#")

\* clean_link(url): url is a str or None
clean_link(url) ==
    IF url.isNone \/ url.val = "" THEN ""
    ELSE RStrip(SplitFirst(SplitFirst(url.val, "?"), "#"), "/")

\* is_root_url without the test for an empty path
is_root_url_EmptyPathToo(dom, url) ==
    With(Strip(Replace(url, dom, ""), "/"), LAMBDA path : ~Contains(path, "/"))

is_root_url(dom, url) ==
    With(Strip(Replace(url, dom, ""), "/"),
         LAMBDA path : ~Contains(path, "/") /\ path # "")

\* index of the first directory pattern occurring in the lower-cased url, 0 if none
RECURSIVE FirstPattern(_, _)
FirstPattern(url_lower, i) ==
    IF i > Len(DIRECTORY_PATTERNS) THEN 0
    ELSE IF Contains(url_lower, DIRECTORY_PATTERNS[i][1]) THEN i
    ELSE FirstPattern(url_lower, i + 1)

classify_schema(url, dom) ==
    With(FirstPattern(Lower(url), 1), LAMBDA i :
        IF i # 0 THEN DIRECTORY_PATTERNS[i][2]
        ELSE IF is_root_url(dom, url) THEN FlatLabel
        ELSE OtherLabel)

\* is_valid_candidate with the directory check ahead of the blacklist
is_valid_candidate_DirectoryFirst(url, dom) ==
    \E url_lower \in {Lower(url)} :
        IF \E i \in 1..Len(DIRECTORY_PATTERNS) :
               Contains(url_lower, DIRECTORY_PATTERNS[i][1])
        THEN TRUE
        ELSE IF \E i \in 1..Len(BLACKLIST_KEYWORDS) :
                    Contains(url_lower, BLACKLIST_KEYWORDS[i])
        THEN FALSE
        ELSE is_root_url(dom, url)
             /\ \E i \in 1..Len(FLAT_SCHEMA_KEYWORDS) :
                    Contains(url_lower, FLAT_SCHEMA_KEYWORDS[i])

is_valid_candidate(url, dom) ==
    \E url_lower \in {Lower(url)} :
        IF \E i \in 1..Len(BLACKLIST_KEYWORDS) :
               Contains(url_lower, BLACKLIST_KEYWORDS[i])
        THEN FALSE
        ELSE IF \E i \in 1..Len(DIRECTORY_PATTERNS) :
                    Contains(url_lower, DIRECTORY_PATTERNS[i][1])
        THEN TRUE
        ELSE is_root_url(dom, url)
             /\ \E i \in 1..Len(FLAT_SCHEMA_KEYWORDS) :
                    Contains(url_lower, FLAT_SCHEMA_KEYWORDS[i])

\* u.split('/')[-1].replace('-', ' ').title()
SlugTitle(u) == Title(Replace(SplitLast(u, "/"), "-", " "))

---------------------------------------------------------------------------
(* Bounds of the model and the inputs drawn within them.                   *)

MaxProducts == 3    \* items in a storefront feed
MaxLocs == 2        \* <loc> elements in a sitemap document
MaxAnchors == 2     \* anchors on the homepage
MaxCleanLen == 4    \* length of a string given to clean_link on its own
MaxSegs == 2        \* path segments of a URL given to the filter on its own

\* the slice bound of strategy_universal_scan's return
ResultCap == 60

\* all sequences over S of length at most n
RECURSIVE SeqsUpTo(_, _)
SeqsUpTo(S, n) ==
    IF n = 0 THEN {<<>>}
    ELSE LET T == SeqsUpTo(S, n - 1)
         IN  T \cup {Append(t, x) : t \in {u \in T : Len(u) = n - 1}, x \in S}

\* all strings over the characters C of length at most n
RECURSIVE StringsUpTo(_, _)
StringsUpTo(C, n) ==
    IF n = 0 THEN {""}
    ELSE LET T == StringsUpTo(C, n - 1)
         IN  T \cup {t \o c : t \in {u \in T : Len(u) = n - 1}, c \in C}

Range(f) == {f[i] : i \in DOMAIN f}

\* what the user may type into the form: a host, with or without scheme
DomainInputs == {"d.com", " https://d.com/"}

SiteDomain == "https://d.com"

\* --- storefront feed payloads (JSON) ---
FeedItem(title, handle) == [dict |-> TRUE, title |-> title, handle |-> handle]
NonObjectItem == [dict |-> FALSE, title |-> "", handle |-> PyNone]

FeedItems ==
    { FeedItem("Alpha", PyStr("h1")),
      FeedItem("Beta", PyStr("h2")),
      FeedItem("Gamma", PyStr("h1")),      \* a repeated handle
      NonObjectItem }                      \* e.g. a number inside the array

JsonBody(json, has_products, products) ==
    [kind |-> "json", json |-> json, has_products |-> has_products,
     products |-> products]

FeedBodies ==
    { JsonBody("invalid", FALSE, <<>>),    \* not JSON at all
      JsonBody("null", FALSE, <<>>),       \* the JSON value null
      JsonBody("array", FALSE, <<>>),      \* a JSON array
      JsonBody("object", FALSE, <<>>) }    \* an object without 'products'
    \cup {JsonBody("object", TRUE, ps) : ps \in SeqsUpTo(FeedItems, MaxProducts)}

\* --- sitemap payloads (XML) ---
LeafLocs ==
    { "https://d.com/solutions/data-sync",
      "https://d.com/solutions/data-sync/?ref=1",
      "https://d.com/careers/open-roles",
      "https://d.com/native-advertising",
      "https://d.com/Platform/Blog-Tools" }

ChildLocs ==
    { "https://d.com/sitemap-products.xml",
      "https://d.com/sitemap-blog.xml",
      "https://d.com/products/sitemap.xml" }

XmlBody(kind, locs) == [kind |-> kind, locs |-> locs]

\* a sitemap with more leaf pages than the result cap
BigSitemap ==
    XmlBody("urlset",
            [i \in 1..(ResultCap + 1) |-> SiteDomain \o "/products/item-" \o ToString(i)])

SitemapBodies ==
    {XmlBody("urlset", ls) : ls \in SeqsUpTo(LeafLocs, MaxLocs)}
    \cup {XmlBody("sitemapindex", ls) : ls \in SeqsUpTo(ChildLocs, MaxLocs) \ {<<>>}}
    \cup {BigSitemap, XmlBody("unparsable", <<>>)}

\* --- homepage payloads (HTML): the anchors with an href, in document order ---
Anchor(href, text) == [href |-> href, text |-> text]

LongText == "An anchor text that is longer than fifty characters in all"

Anchors ==
    { Anchor("/solutions/data-sync", "Data Sync"),
      Anchor("https://d.com/solutions/data-sync?utm=1#top", ""),
      Anchor("/careers/open-roles", "Careers"),
      Anchor("https://o.net/solutions/x", "Partner"),
      Anchor("native-advertising/", LongText),
      Anchor("#pricing", "Pricing"),
      Anchor("/products/item-61", "Item"),
      Anchor("http://[bad", "Broken") }

HtmlBody(anchors) == [kind |-> "html", anchors |-> anchors]

HomeBodies == {HtmlBody(as) : as \in SeqsUpTo(Anchors, MaxAnchors)}

Statuses == {200, 404}

Response(status, body) == [status |-> status, body |-> body]
NoResponse == Response(0, [kind |-> "none"])

\* the outcome of requests.get: an exception, or a response
Raised == [raised |-> TRUE, value |-> <<>>]
Returned(v) == [raised |-> FALSE, value |-> v]

GetOutcomes(bodies) ==
    {Raised} \cup {Returned(Response(st, b)) : st \in Statuses, b \in bodies}

---------------------------------------------------------------------------
(* The strategies.                                                         *)

Entry(name, schema, url, source) ==
    [Name |-> name, Schema |-> schema, URL |-> url, Source |-> source]

\* key in d, for a dict kept as the sequence of its values in insertion order
HasKey(d, k) == \E i \in 1..Len(d) : d[i].URL = k

\* the elements of seq whose URL is not a key of d and occurs at no earlier position
NewKeys(d, seq) ==
    LET idx == SelectSeq([i \in 1..Len(seq) |-> i],
                         LAMBDA i : /\ ~HasKey(d, seq[i].URL)
                                    /\ \A j \in 1..(i - 1) : seq[j].URL # seq[i].URL)
    IN  MapSeq(idx, LAMBDA i : seq[i])

\* the last entry of seq with the URL k
LastFor(seq, k) ==
    seq[CHOOSE i \in 1..Len(seq) :
            /\ seq[i].URL = k
            /\ \A j \in (i + 1)..Len(seq) : seq[j].URL # k]

\* "d[e.URL] = e" for each e of seq in turn: a key already present keeps its
\* position and takes the last value written, a new key goes last
DictAssignAll(d0, seq0) ==
    With(<<d0, seq0>>, LAMBDA a :
        MapSeq(a[1], LAMBDA e : IF HasKey(a[2], e.URL) THEN LastFor(a[2], e.URL) ELSE e)
        \o MapSeq(NewKeys(a[1], a[2]), LAMBDA e : LastFor(a[2], e.URL)))

\* "if e.URL not in d: d[e.URL] = e" for each e of seq in turn
DictAddMissing(d0, seq0) ==
    With(<<d0, seq0>>, LAMBDA a : a[1] \o NewKeys(a[1], a[2]))

\* the body of strategy_shopify's try block after requests.get returned r
shopify_try(resp, dom) ==
    IF resp.status # 200 THEN Returned(<<>>)
    ELSE IF resp.body.json = "invalid" THEN Raised           \* r.json() raises
    ELSE IF resp.body.json = "null" THEN Raised               \* 'products' in None
    ELSE IF ~resp.body.has_products \/ Len(resp.body.products) = 0
    THEN Returned(<<>>)
    ELSE IF \E i \in 1..Len(resp.body.products) : ~resp.body.products[i].dict
    THEN Raised                                               \* p.get on a non-dict
    ELSE Returned([i \in 1..Len(resp.body.products) |->
                      Entry(resp.body.products[i].title,
                            "Retail Product",
                            dom \o "/products/"
                                \o FormatValue(resp.body.products[i].handle),
                            "Shopify API")])

\* strategy_shopify with no except clause: the exception leaves the function
shopify_except_Propagates(outcome) == outcome

\* "except: pass" followed by "return []"
shopify_except(outcome) == IF outcome.raised THEN Returned(<<>>) ELSE outcome

\* the list sitemaps
sitemaps(dom) ==
    <<dom \o "/sitemap.xml", dom \o "/sitemap_index.xml", dom \o "/wp-sitemap.xml">>

\* lines 131-137: the entry written for the cleaned URL u
sitemap_entry(u, dom) ==
    Entry(SlugTitle(u), classify_schema(u, dom), u, "Sitemap")

\* lines 128-137: the entries the loop over the <loc> texts writes, in order
sitemap_entries(locs, dom) ==
    MapSeq(SelectSeq(MapSeq(locs, LAMBDA u : clean_link(PyStr(u))),
                     LAMBDA u : is_valid_candidate(u, dom)),
           LAMBDA u : sitemap_entry(u, dom))

sitemap_locs(found, locs, dom) == DictAssignAll(found, sitemap_entries(locs, dom))

\* the body of the inner try block after requests.get returned r; find_all('loc')
\* takes the <loc> of <url> and of <sitemap> elements alike
sitemap_try(found, resp, dom) ==
    IF resp.status # 200 THEN Returned(found)
    ELSE IF resp.body.kind = "unparsable" THEN [raised |-> TRUE, value |-> found]
    ELSE Returned(sitemap_locs(found, resp.body.locs, dom))

\* urljoin(domain, href) for a domain without a path, hrefs without dot segments
HasScheme(href) == StartsWith(href, "http://") \/ StartsWith(href, "https://")

urljoin_raises(href) ==
    (HasScheme(href) \/ StartsWith(href, "//"))
    /\ Contains(href, "[") /\ ~Contains(href, "]")

urljoin(dom, href) ==
    IF HasScheme(href) THEN href
    ELSE IF StartsWith(href, "//") THEN SplitFirst(dom, "//") \o href
    ELSE IF href = "" \/ StartsWith(href, "/") \/ StartsWith(href, "#")
            \/ StartsWith(href, "?")
    THEN dom \o href
    ELSE dom \o "/" \o href

\* lines 156-165: the entry offered for an anchor, full_url its cleaned absolute URL
nav_entry(full_url, text, dom) ==
    Entry(IF text = "" \/ Len(text) > 50 THEN SlugTitle(full_url) ELSE text,
          classify_schema(full_url, dom), full_url, "Homepage Nav")

\* lines 147-165: the entries the loop over the first n anchors offers, in order
nav_entries(anchors, n, dom) ==
    MapSeq(SelectSeq(MapSeq(SubSeq(anchors, 1, n),
                            LAMBDA a : [full_url |->
                                            clean_link(PyStr(urljoin(dom, a.href))),
                                        text |-> a.text]),
                     LAMBDA a : /\ Contains(a.full_url, dom)
                                /\ is_valid_candidate(a.full_url, dom)),
           LAMBDA a : nav_entry(a.full_url, a.text, dom))

\* the homepage entries written over the entries already found
nav_merge_Overwrites(found, entries) == DictAssignAll(found, entries)

\* line 155: "Only add if not already found in sitemap"
nav_merge(found, entries) == DictAddMissing(found, entries)

\* the loop over the anchors; an exception (urljoin) leaves the loop at that anchor
\* with what was added before it
nav_anchors(found, anchors, dom) ==
    LET bad == {i \in 1..Len(anchors) : urljoin_raises(anchors[i].href)}
        n == IF bad = {} THEN Len(anchors)
             ELSE (CHOOSE i \in bad : \A j \in bad : i <= j) - 1
    IN  [raised |-> bad # {}, value |-> nav_merge(found, nav_entries(anchors, n, dom))]

\* the homepage scan skipped once the sitemap gave five entries
runs_homepage_scan_OnlyIfFew(found) == Len(found) < 5

\* section 2 of strategy_universal_scan is entered whatever section 1 found
runs_homepage_scan(found) == TRUE

\* list(found_items.values())[:60]
scan_return(found) == SubSeq(found, 1, Min(ResultCap, Len(found)))

\* the universal scan run whatever the storefront returned
runs_universal_scan_Always(res) == TRUE

\* "if not results"
runs_universal_scan(res) == res = <<>>

\* the orchestrator's clean-up of domain_input (strip() of blanks)
normalise_domain(domain_input) ==
    With(Strip(domain_input, " "), LAMBDA d :
        RStrip(IF StartsWith(d, "http") THEN d ELSE "https://" \o d, "/"))

---------------------------------------------------------------------------
(* One scan: the block run when the button is pressed.                     *)

Init ==
    /\ pc = "start"
    /\ domain \in DomainInputs
    /\ r = NoResponse
    /\ api_results = <<>>
    /\ found_items = <<>>
    /\ results = <<>>
    /\ fetched = <<>>
    /\ sm_idx = 0
    /\ arg = PyNone
    /\ ret = <<>>

\* lines 189-196
Start ==
    /\ pc = "start"
    /\ domain' = normalise_domain(domain)
    /\ results' = <<>>
    /\ pc' = "shopify_get"
    /\ UNCHANGED <<r, api_results, found_items, fetched, sm_idx, arg, ret>>

\* strategy_shopify, lines 98-99: the request; a failure goes to the except clause
ShopifyGet ==
    /\ pc = "shopify_get"
    /\ fetched' = Append(fetched, domain \o "/products.json?limit=250")
    /\ \E got \in GetOutcomes(FeedBodies) :
          \E out \in {shopify_except(got)} :
              IF out.raised
              THEN pc' = "raised" /\ UNCHANGED <<r, api_results>>
              ELSE IF got.raised
              THEN pc' = "orch_api" /\ api_results' = out.value /\ UNCHANGED r
              ELSE pc' = "shopify_parse" /\ r' = got.value /\ UNCHANGED api_results
    /\ UNCHANGED <<domain, found_items, results, sm_idx, arg, ret>>

\* strategy_shopify, lines 100-110
ShopifyParse ==
    /\ pc = "shopify_parse"
    /\ \E out \in {shopify_except(shopify_try(r, domain))} :
           IF out.raised
           THEN pc' = "raised" /\ UNCHANGED api_results
           ELSE pc' = "orch_api" /\ api_results' = out.value
    /\ UNCHANGED <<domain, r, found_items, results, fetched, sm_idx, arg, ret>>

\* lines 200-203 (and 207-210 when the universal scan is not run)
OrchApi ==
    /\ pc = "orch_api"
    /\ results' = IF api_results # <<>> THEN results \o api_results ELSE results
    /\ IF runs_universal_scan(results')
       THEN pc' = "sm_get" /\ sm_idx' = 1 /\ found_items' = <<>>
       ELSE pc' = "done" /\ UNCHANGED <<sm_idx, found_items>>
    /\ UNCHANGED <<domain, r, api_results, fetched, arg, ret>>

\* where the sitemap loop goes after the root sm_idx: the next root, or on to section 2
AfterSitemap(found, stop) ==
    IF stop \/ sm_idx = Len(sitemaps(domain))
    THEN /\ pc' = IF runs_homepage_scan(found) THEN "home_get" ELSE "scan_return"
         /\ UNCHANGED sm_idx
    ELSE pc' = "sm_get" /\ sm_idx' = sm_idx + 1

\* line 124: the request for one sitemap root; a failure is "except: continue"
SitemapGet ==
    /\ pc = "sm_get"
    /\ fetched' = Append(fetched, sitemaps(domain)[sm_idx])
    /\ \E got \in GetOutcomes(SitemapBodies) :
          IF got.raised
          THEN AfterSitemap(found_items, FALSE) /\ UNCHANGED r
          ELSE pc' = "sm_parse" /\ r' = got.value /\ UNCHANGED sm_idx
    /\ UNCHANGED <<domain, api_results, found_items, results, arg, ret>>

\* lines 125-139: one sitemap document; "break" once found_items is not empty
SitemapParse ==
    /\ pc = "sm_parse"
    /\ \E out \in {sitemap_try(found_items, r, domain)} :
           /\ found_items' = out.value
           /\ AfterSitemap(out.value, ~out.raised /\ r.status = 200 /\ out.value # <<>>)
    /\ UNCHANGED <<domain, r, api_results, results, fetched, arg, ret>>

\* line 144: the request for the homepage; a failure is "except: pass"
HomeGet ==
    /\ pc = "home_get"
    /\ fetched' = Append(fetched, domain)
    /\ \E got \in GetOutcomes(HomeBodies) :
          IF got.raised
          THEN pc' = "scan_return" /\ UNCHANGED r
          ELSE pc' = "home_parse" /\ r' = got.value
    /\ UNCHANGED <<domain, api_results, found_items, results, sm_idx, arg, ret>>

\* lines 145-166: the anchors of the response, whatever its status
HomeParse ==
    /\ pc = "home_parse"
    /\ found_items' = nav_anchors(found_items, r.body.anchors, domain).value
    /\ pc' = "scan_return"
    /\ UNCHANGED <<domain, r, api_results, results, fetched, sm_idx, arg, ret>>

\* line 168 and line 205
ScanReturn ==
    /\ pc = "scan_return"
    /\ results' = results \o scan_return(found_items)
    /\ pc' = "done"
    /\ UNCHANGED <<domain, r, api_results, found_items, fetched, sm_idx, arg, ret>>

Next ==
    \/ Start
    \/ ShopifyGet
    \/ ShopifyParse
    \/ OrchApi
    \/ SitemapGet
    \/ SitemapParse
    \/ HomeGet
    \/ HomeParse
    \/ ScanReturn

Spec == Init /\ [][Next]_vars

---------------------------------------------------------------------------
(* clean_link on its own, applied once and then to its own result.         *)

CleanChars == {"a", "/", "?", "#"}

CleanInputs == {PyNone} \cup {PyStr(t) : t \in StringsUpTo(CleanChars, MaxCleanLen)}

InitClean ==
    /\ pc = "clean_call"
    /\ arg \in CleanInputs
    /\ ret = <<>>
    /\ domain = SiteDomain
    /\ r = NoResponse
    /\ api_results = <<>>
    /\ found_items = <<>>
    /\ results = <<>>
    /\ fetched = <<>>
    /\ sm_idx = 0

CleanCall ==
    /\ pc = "clean_call"
    /\ ret' = <<clean_link(arg)>>
    /\ pc' = "clean_again"
    /\ UNCHANGED <<domain, r, api_results, found_items, results, fetched, sm_idx, arg>>

CleanAgain ==
    /\ pc = "clean_again"
    /\ ret' = Append(ret, clean_link(PyStr(ret[1])))
    /\ pc' = "clean_done"
    /\ UNCHANGED <<domain, r, api_results, found_items, results, fetched, sm_idx, arg>>

NextClean == CleanCall \/ CleanAgain

SpecClean == InitClean /\ [][NextClean]_vars

---------------------------------------------------------------------------
(* is_valid_candidate and classify_schema on their own, on URLs built from *)
(* a prefix, path segments and an optional trailing slash.                 *)

UrlPrefixes == {SiteDomain, "https://o.net", ""}

UrlSegments ==
    {"solutions", "Platform", "careers", "native-advertising", "pricing", "Blog-abm", "x"}

RECURSIVE JoinPath(_)
JoinPath(segs) == IF segs = <<>> THEN "" ELSE "/" \o Head(segs) \o JoinPath(Tail(segs))

FilterInputs ==
    {[prefix |-> p, segs |-> sg, url |-> p \o JoinPath(sg) \o t] :
        p \in UrlPrefixes, sg \in SeqsUpTo(UrlSegments, MaxSegs), t \in {"", "/"}}

InitFilter ==
    /\ pc = "filter_call"
    /\ arg \in FilterInputs
    /\ ret = <<>>
    /\ domain = SiteDomain
    /\ r = NoResponse
    /\ api_results = <<>>
    /\ found_items = <<>>
    /\ results = <<>>
    /\ fetched = <<>>
    /\ sm_idx = 0

FilterCall ==
    /\ pc = "filter_call"
    /\ ret' = <<is_valid_candidate(arg.url, domain)>>
    /\ pc' = "classify_call"
    /\ UNCHANGED <<domain, r, api_results, found_items, results, fetched, sm_idx, arg>>

ClassifyCall ==
    /\ pc = "classify_call"
    /\ ret' = Append(ret, classify_schema(arg.url, domain))
    /\ pc' = "helper_done"
    /\ UNCHANGED <<domain, r, api_results, found_items, results, fetched, sm_idx, arg>>

NextFilter == FilterCall \/ ClassifyCall

SpecFilter == InitFilter /\ [][NextFilter]_vars

\* the helper calls and the scans side by side
SpecCandidates == (Init \/ InitFilter) /\ [][Next \/ NextFilter]_vars

---------------------------------------------------------------------------
(* The claims.                                                             *)

FeedUrl == domain \o "/products.json?limit=250"

\* the feed request succeeded with a non-empty collection of product objects
FeedHit(resp) ==
    /\ resp.body.kind = "json"
    /\ resp.status = 200
    /\ resp.body.json = "object"
    /\ resp.body.has_products
    /\ Len(resp.body.products) > 0
    /\ \A i \in 1..Len(resp.body.products) : resp.body.products[i].dict

HasBlacklisted(url) ==
    \E url_lower \in {Lower(url)} :
        \E i \in 1..Len(BLACKLIST_KEYWORDS) : Contains(url_lower, BLACKLIST_KEYWORDS[i])

HasDirectoryPattern(url) ==
    \E url_lower \in {Lower(url)} :
        \E i \in 1..Len(DIRECTORY_PATTERNS) : Contains(url_lower, DIRECTORY_PATTERNS[i][1])

HasBusinessKeyword(url) ==
    \E url_lower \in {Lower(url)} :
        \E i \in 1..Len(FLAT_SCHEMA_KEYWORDS) : Contains(url_lower, FLAT_SCHEMA_KEYWORDS[i])

UniqueUrls(seq) ==
    \A i, j \in 1..Len(seq) : i # j => seq[i].URL # seq[j].URL

\* C1: when the storefront feed answers 200 with a non-empty collection of N
\* product objects, strategy_shopify returns exactly N entries, the i-th built from
\* the i-th feed item with schema "Retail Product" and source "Shopify API"; the
\* scan then ends with exactly these entries and has requested nothing but the feed.
C1_StorefrontHit ==
    /\ (pc = "orch_api" /\ FeedHit(r)) =>
          /\ Len(api_results) = Len(r.body.products)
          /\ \A i \in 1..Len(api_results) :
                api_results[i] =
                    [Name |-> r.body.products[i].title,
                     Schema |-> "Retail Product",
                     URL |-> domain \o "/products/"
                                 \o FormatValue(r.body.products[i].handle),
                     Source |-> "Shopify API"]
    /\ (pc \notin {"start", "shopify_get", "shopify_parse", "orch_api"}
        /\ api_results # <<>>) =>
          /\ pc = "done"
          /\ results = api_results
          /\ fetched = <<FeedUrl>>

C1_Witness ==
    pc = "done" /\ FeedHit(r) /\ Len(results) = 3 /\ fetched = <<FeedUrl>>

\* C2 as stated: the homepage is requested only when the sitemap roots gave fewer
\* than the minimum (five) entries.
C2_HomepageOnlyAsFallback ==
    pc = "home_get" => Len(found_items) < 5

\* C2 amended: the requests of a scan are, in this order, the feed, the sitemap
\* roots up to and including the first one that yields an entry (all three when
\* none does), and the homepage; a feed hit ends the scan after the feed, and a
\* feed miss always reaches the homepage, however many entries the sitemap gave.
C2_OrderWithoutFallback ==
    pc # "start" =>
        \E k \in 0..Len(sitemaps(domain)) : \E h \in {<<>>, <<domain>>} :
            /\ fetched \in {<<>>, <<FeedUrl>> \o SubSeq(sitemaps(domain), 1, k) \o h}
            /\ (pc = "done" /\ api_results # <<>>) => (k = 0 /\ h = <<>>)
            /\ (pc = "done" /\ api_results = <<>>) => (k >= 1 /\ h = <<domain>>)
            /\ (h = <<domain>> /\ k < Len(sitemaps(domain))) =>
                    \E i \in 1..Len(found_items) : found_items[i].Source = "Sitemap"
            /\ (pc = "sm_get" /\ k >= 1) => found_items = <<>>

C2_Witness ==
    /\ pc = "done"
    /\ fetched = <<FeedUrl, sitemaps(domain)[1], domain>>
    /\ Cardinality({i \in 1..Len(found_items) : found_items[i].Source = "Sitemap"}) >= 5
    /\ \E i \in 1..Len(found_items) : found_items[i].Source = "Homepage Nav"

\* C3: the homepage scan keeps every entry the sitemap scan wrote, at its place
\* and with its source "Sitemap", and adds only URLs that are not yet keys: the
\* merged mapping holds each URL once, and a URL both scans offer stays the
\* sitemap's entry.  The list returned is the first ResultCap values of the mapping.
C3_SitemapEntryKept ==
    /\ [][pc = "home_parse" =>
            /\ Len(found_items') >= Len(found_items)
            /\ \A i \in 1..Len(found_items) :
                  /\ found_items[i].Source = "Sitemap"
                  /\ found_items'[i] = found_items[i]
                  /\ Cardinality({j \in 1..Len(found_items') :
                                     found_items'[j].URL = found_items[i].URL}) = 1
            /\ UniqueUrls(found_items')]_vars
    /\ [](pc = "done" /\ api_results = <<>> =>
            results = SubSeq(found_items, 1, Min(ResultCap, Len(found_items))))

\* a sitemap entry and a homepage anchor with the same normalised URL
C3_Witness ==
    /\ pc = "scan_return"
    /\ r.body.kind = "html"
    /\ \E i \in 1..Len(found_items) : \E k \in 1..Len(r.body.anchors) :
          /\ ~urljoin_raises(r.body.anchors[k].href)
          /\ found_items[i].Source = "Sitemap"
          /\ found_items[i].URL =
                clean_link(PyStr(urljoin(domain, r.body.anchors[k].href)))
          /\ r.body.anchors[k].href # found_items[i].URL

\* C4: no two entries of the list a scan returns have the same url.
C4_ReturnedUrlsDistinct ==
    pc = "done" => UniqueUrls(results)

\* C5: is_valid_candidate is false for every URL whose lower-cased text contains
\* a blacklist keyword, whatever else the URL matches; no entry that the sitemap
\* or the homepage scan writes has such a URL, and the entries a scan returns
\* from them are entries they wrote.
C5_BlacklistDominates ==
    /\ []((pc \in {"classify_call", "helper_done"} /\ HasBlacklisted(arg.url)) =>
             ret[1] = FALSE)
    /\ [][\A i \in 1..Len(found_items') :
             (i > Len(found_items) \/ found_items'[i] # found_items[i]) =>
                 ~HasBlacklisted(found_items'[i].URL)]_vars
    /\ [](\A i \in 1..Len(results) :
             results[i].Source \in {"Sitemap", "Homepage Nav"} =>
                 results[i] \in Range(found_items))

\* a blacklisted URL that also matches a directory pattern was refused
C5_Witness ==
    /\ pc = "helper_done"
    /\ HasBlacklisted(arg.url)
    /\ HasDirectoryPattern(arg.url)
    /\ ret[1] = FALSE

\* the URL of a filter input is root-level: it is one path segment, alone or
\* under the domain
RootLevelInput(a) == a.prefix \in {SiteDomain, ""} /\ Len(a.segs) = 1

\* C6 as stated: a URL matching no directory pattern gets the flat label only if
\* it is root-level and holds a business keyword, and "Other" otherwise.
C6_FlatNeedsKeyword ==
    (pc = "helper_done" /\ ~HasDirectoryPattern(arg.url)) =>
        IF RootLevelInput(arg) /\ HasBusinessKeyword(arg.url)
        THEN ret[2] = FlatLabel
        ELSE ret[2] = OtherLabel

\* C6 amended: a URL matching no directory pattern gets the flat label exactly
\* when it is root-level, with or without a business keyword, and "Other"
\* otherwise (the keyword is asked for by is_valid_candidate alone).
C6_FlatIffRoot ==
    (pc = "helper_done" /\ ~HasDirectoryPattern(arg.url)) =>
        ret[2] = (IF RootLevelInput(arg) THEN FlatLabel ELSE OtherLabel)

\* a root-level URL without any business keyword labelled flat
C6_Witness ==
    /\ pc = "helper_done"
    /\ arg.url = SiteDomain \o "/pricing"
    /\ ret[2] = FlatLabel
    /\ ret[1] = FALSE

\* C7: no exception leaves a strategy: whatever a fetch or a parse does, control
\* goes on to the next step of the scan, entries found before a failure are
\* kept, the strategies' results are lists, and a scan whose every fetch fails
\* ends with an empty list.
C7_NeverRaises ==
    /\ [](/\ pc # "raised"
          /\ DOMAIN api_results = 1..Len(api_results)
          /\ DOMAIN results = 1..Len(results)
          /\ (pc = "done" /\ r = NoResponse) => results = <<>>)
    /\ [][/\ pc = "shopify_get" => pc' \in {"shopify_parse", "orch_api"}
          /\ pc = "shopify_parse" => pc' = "orch_api"
          /\ pc = "orch_api" => pc' \in {"sm_get", "done"}
          /\ pc = "sm_get" => pc' \in {"sm_parse", "sm_get", "home_get"}
          /\ pc = "sm_parse" => pc' \in {"sm_get", "home_get"}
          /\ pc = "home_get" => pc' \in {"home_parse", "scan_return"}
          /\ pc = "home_parse" => pc' = "scan_return"
          /\ pc = "scan_return" => pc' = "done"
          /\ Len(found_items') >= Len(found_items)
          /\ \A i \in 1..Len(found_items) : found_items'[i].URL = found_items[i].URL
         ]_vars

\* all five requests failed
C7_Witness ==
    /\ pc = "done"
    /\ r = NoResponse
    /\ Len(fetched) = 5
    /\ results = <<>>

\* C8: a response whose status is not 200 adds no entry, for the feed, for a
\* sitemap root and for the homepage.
C8_Non200AddsNothing ==
    [][(pc \in {"shopify_parse", "sm_parse", "home_parse"} /\ r.status # 200) =>
          (found_items' = found_items /\ api_results' = api_results)]_vars

\* the child of a sitemap index that the sitemap scan is to follow
RelevantChild(u) ==
    \E w \in {"page", "product", "solution", "service"} : Contains(u, w)

\* C9: once a sitemap index has been read, its relevant children have been
\* requested, and no child sitemap URL is itself an entry.
C9_IndexChildrenFollowed ==
    (pc \in {"sm_get", "home_get"} /\ r.status = 200
     /\ r.body.kind = "sitemapindex") =>
        \A i \in 1..Len(r.body.locs) :
            /\ RelevantChild(r.body.locs[i]) => r.body.locs[i] \in Range(fetched)
            /\ ~HasKey(found_items, clean_link(PyStr(r.body.locs[i])))

\* C10: clean_link's result has no '?', no '#' and no trailing '/', cleaning it
\* again changes nothing, and None and the empty string give the empty string.
C10_CleanLink ==
    /\ pc \in {"clean_again", "clean_done"} =>
          /\ ~Contains(ret[1], "?")
          /\ ~Contains(ret[1], "#")
          /\ (ret[1] = "" \/ Ch(ret[1], Len(ret[1])) # "/")
          /\ (arg.isNone \/ arg.val = "") => ret[1] = ""
    /\ pc = "clean_done" => ret[2] = ret[1]

\* an input with a query, a fragment and trailing slashes before them
C10_Witness ==
    /\ pc = "clean_done"
    /\ arg = PyStr("a/?#")
    /\ ret = <<"a", "a">>

=============================================================================
